---- MODULE Spec2Model ----
(***************************************************************************)
(* The fuzzermon result schema (main/models.py): eight tables, their       *)
(* unique columns, their foreign keys with on_delete=CASCADE and the       *)
(* auto_now_add timestamp of Batch, together with the row operations the   *)
(* declarations give each table: insert, delete (with the cascade the      *)
(* foreign keys declare) and, for Batch, an edit of its editable fields.   *)
(***************************************************************************)
EXTENDS Naturals, FiniteSets, TLC

\* ------------------------------------------------------------------ bounds

\* Rows a run may insert into the empty database.
MaxRows == 4
\* Rows a run may insert into the loaded database (Loaded below).
MaxMore == 2

\* ------------------------------------------------------- column value sets

Usernames == {"alice", "bob"}
ArchNames == {"ARM", "PPC"}
Hostnames == {"host1", "host2"}
FuzzerHosts == {"fuzzer1"}
OpcodeNames == {"ADD"}
Counts == {3}
Pretties == {"ADD r1, r2"}
Arguments == {"r1 r2"}
Locations == {"r1"}
Values == {"0x0"}
\* The clock's readings: the instant the database is opened, and a later one.
Times == {0, 1}

\* ------------------------------------------------------------------ schema

Tables ==
    {"User", "Arch", "Host", "Batch", "Opcode",
     "TestSuccess", "TestFailure", "TestFailureState"}

\* unique=True columns
\* (variant: username without unique=True)
User_username_NotUnique == [table |-> "User", field |-> "username", unique |-> FALSE]
User_username == [table |-> "User", field |-> "username", unique |-> TRUE]
Arch_name == [table |-> "Arch", field |-> "name", unique |-> TRUE]
Host_hostname == [table |-> "Host", field |-> "hostname", unique |-> TRUE]
Opcode_name == [table |-> "Opcode", field |-> "name", unique |-> FALSE]

\* (variant: TestFailureState.test_failure as a one-to-one key)
UniqueColumnsOneToOne ==
    {c \in {User_username, Arch_name, Host_hostname, Opcode_name} : c.unique}
        \cup {[table |-> "TestFailureState", field |-> "test_failure", unique |-> TRUE]}
UniqueColumns ==
    {c \in {User_username, Arch_name, Host_hostname, Opcode_name} : c.unique}

\* ForeignKey columns (the _NoCascade variants declare on_delete=DO_NOTHING)
Host_arch_NoCascade ==
    [table |-> "Host", field |-> "arch", to |-> "Arch", on_delete |-> "DO_NOTHING"]
Host_arch ==
    [table |-> "Host", field |-> "arch", to |-> "Arch", on_delete |-> "CASCADE"]
Batch_testing_host_NoCascade ==
    [table |-> "Batch", field |-> "testing_host", to |-> "Host", on_delete |-> "DO_NOTHING"]
Batch_testing_host ==
    [table |-> "Batch", field |-> "testing_host", to |-> "Host", on_delete |-> "CASCADE"]
Batch_user_NoCascade ==
    [table |-> "Batch", field |-> "user", to |-> "User", on_delete |-> "DO_NOTHING"]
Batch_user ==
    [table |-> "Batch", field |-> "user", to |-> "User", on_delete |-> "CASCADE"]
Opcode_arch ==
    [table |-> "Opcode", field |-> "arch", to |-> "Arch", on_delete |-> "CASCADE"]
TestSuccess_batch ==
    [table |-> "TestSuccess", field |-> "batch", to |-> "Batch", on_delete |-> "CASCADE"]
TestSuccess_opcode ==
    [table |-> "TestSuccess", field |-> "opcode", to |-> "Opcode", on_delete |-> "CASCADE"]
TestFailure_batch ==
    [table |-> "TestFailure", field |-> "batch", to |-> "Batch", on_delete |-> "CASCADE"]
TestFailure_opcode_NoCascade ==
    [table |-> "TestFailure", field |-> "opcode", to |-> "Opcode", on_delete |-> "DO_NOTHING"]
TestFailure_opcode ==
    [table |-> "TestFailure", field |-> "opcode", to |-> "Opcode", on_delete |-> "CASCADE"]
TestFailureState_test_failure ==
    [table |-> "TestFailureState", field |-> "test_failure", to |-> "TestFailure",
     on_delete |-> "CASCADE"]

ForeignKeys ==
    {Host_arch, Batch_testing_host, Batch_user, Opcode_arch,
     TestSuccess_batch, TestSuccess_opcode,
     TestFailure_batch, TestFailure_opcode,
     TestFailureState_test_failure}

\* DateTimeField(auto_now_add=True): set from the clock on insert, not editable
\* (variant: a plain DateTimeField)
Batch_submitted_at_Default ==
    [table |-> "Batch", field |-> "submitted_at", auto_now_add |-> FALSE]
Batch_submitted_at ==
    [table |-> "Batch", field |-> "submitted_at", auto_now_add |-> TRUE]

AutoNowAdd(t, f) ==
    /\ Batch_submitted_at.table = t
    /\ Batch_submitted_at.field = f
    /\ Batch_submitted_at.auto_now_add

Editable(t, f) == f # "id" /\ ~AutoNowAdd(t, f)

\* ------------------------------------------------------------------- state

VARIABLES
    rows,     \* rows[t]: the set of rows of table t, each a record with an id
    nextId,   \* nextId[t]: the next value of table t's auto-increment key
    now,      \* the wall clock the persistence layer reads
    result,   \* what the last operation returned or raised
    quota     \* rows the run may still insert

vars == <<rows, nextId, now, result, quota>>

Ids(t) == {r.id : r \in rows[t]}

Row(t, id) == CHOOSE r \in rows[t] : r.id = id

\* A value an application may put in a foreign-key column of a new row: the id
\* of a row ever created in the referenced table, or one never created.
FkValues(t) == 1..nextId[t]

\* The rows an application may hand to the persistence layer. A timestamp it
\* supplies for submitted_at is one the clock does not show at that moment
\* (one equal to the clock's reading cannot be told from none supplied).
Candidates(t) ==
    CASE t = "User" -> [username : Usernames]
      [] t = "Arch" -> [name : ArchNames]
      [] t = "Host" -> [hostname : Hostnames, arch : FkValues("Arch")]
      [] t = "Batch" ->
            [fuzzer_host : FuzzerHosts, testing_host : FkValues("Host"),
             user : FkValues("User"), submitted_at : Times \ {now}]
      [] t = "Opcode" -> [name : OpcodeNames, arch : FkValues("Arch")]
      [] t = "TestSuccess" ->
            [batch : FkValues("Batch"), opcode : FkValues("Opcode"), count : Counts]
      [] t = "TestFailure" ->
            [batch : FkValues("Batch"), opcode : FkValues("Opcode"),
             pretty : Pretties, arguments : Arguments]
      [] t = "TestFailureState" ->
            [test_failure : FkValues("TestFailure"), location : Locations,
             expected_value : Values, actual_value : Values]

NoResult == [op |-> "none", table |-> "none", status |-> "ok", count |-> 0]

\* The database before any row is inserted.
Empty == [t \in Tables |-> {}]

\* A database seven inserts have loaded: Arch(name="ARM"),
\* Host(hostname="host1", arch=ARM), User(username="alice"),
\* Batch(fuzzer_host="fuzzer1", testing_host=host1, user=alice),
\* Opcode("ADD", ARM), and one TestSuccess and one TestFailure of that batch
\* and opcode.
Loaded ==
    [t \in Tables |->
        CASE t = "Arch" -> {[id |-> 1, name |-> "ARM"]}
          [] t = "Host" -> {[id |-> 1, hostname |-> "host1", arch |-> 1]}
          [] t = "User" -> {[id |-> 1, username |-> "alice"]}
          [] t = "Batch" ->
                {[id |-> 1, fuzzer_host |-> "fuzzer1", testing_host |-> 1,
                  user |-> 1, submitted_at |-> 0]}
          [] t = "Opcode" -> {[id |-> 1, name |-> "ADD", arch |-> 1]}
          [] t = "TestSuccess" -> {[id |-> 1, batch |-> 1, opcode |-> 1, count |-> 3]}
          [] t = "TestFailure" ->
                {[id |-> 1, batch |-> 1, opcode |-> 1, pretty |-> "ADD r1, r2",
                  arguments |-> "r1 r2"]}
          [] OTHER -> {}]

Init ==
    /\ \/ rows = Empty /\ quota = MaxRows
       \/ rows = Loaded /\ quota = MaxMore
    /\ nextId = [t \in Tables |-> Cardinality(rows[t]) + 1]
    /\ now = 0
    /\ result = NoResult

\* -------------------------------------------------------------- constraints

\* Another row of t (not `self`) already holds v's value in a unique column.
UniqueViolated(t, v, self) ==
    \E c \in UniqueColumns :
        /\ c.table = t
        /\ \E r \in rows[t] : r.id # self /\ r[c.field] = v[c.field]

\* (variant: the key is compared with the ids ever handed out, not with the
\* rows that exist)
FkViolatedEverCreated(t, v) ==
    \E fk \in ForeignKeys :
        /\ fk.table = t
        /\ v[fk.field] \notin 1..(nextId[fk.to] - 1)

\* A foreign-key column of v names no row of the referenced table.
FkViolated(t, v) ==
    \E fk \in ForeignKeys :
        /\ fk.table = t
        /\ v[fk.field] \notin Ids(fk.to)

\* -------------------------------------------------------------- operations

NewRow(t, v) ==
    [f \in DOMAIN v \cup {"id"} |->
        IF f = "id" THEN nextId[t]
        ELSE IF AutoNowAdd(t, f) THEN now
        ELSE v[f]]

Insert(t, v) ==
    /\ quota > 0
    /\ IF UniqueViolated(t, v, 0) \/ FkViolated(t, v)
       THEN /\ result' = [op |-> "insert", table |-> t,
                          status |-> "IntegrityError", count |-> 0]
            /\ UNCHANGED <<rows, nextId, quota>>
       ELSE /\ rows' = [rows EXCEPT ![t] = @ \cup {NewRow(t, v)}]
            /\ nextId' = [nextId EXCEPT ![t] = @ + 1]
            /\ quota' = quota - 1
            /\ result' = [op |-> "insert", table |-> t, status |-> "ok", count |-> 1]
    /\ UNCHANGED now

\* (variant: the direct dependents only)
CollectDirect(S) ==
    S \cup UNION {{<<fk.table, r.id>> :
                      r \in {x \in rows[fk.table] : <<fk.to, x[fk.field]>> \in S}} :
                 fk \in {k \in ForeignKeys : k.on_delete = "CASCADE"}}

\* (variant: a collected row also takes the rows it refers to)
RECURSIVE CollectBothWays(_)
CollectBothWays(S) ==
    LET dependents ==
            UNION {{<<fk.table, r.id>> :
                        r \in {x \in rows[fk.table] : <<fk.to, x[fk.field]>> \in S}} :
                   fk \in ForeignKeys}
        parents ==
            UNION {{<<fk.to, r[fk.field]>> :
                        r \in {x \in rows[fk.table] : <<fk.table, x.id>> \in S}} :
                   fk \in ForeignKeys}
    IN  IF dependents \cup parents \subseteq S THEN S
        ELSE CollectBothWays(S \cup dependents \cup parents)

\* The rows a deletion of the rows in S takes with it: S and, over and over,
\* every row that refers to a collected row through an on_delete=CASCADE key.
\* A collected row is a pair <<table, id>>.
RECURSIVE Collect(_)
Collect(S) ==
    LET cascading == {k \in ForeignKeys : k.on_delete = "CASCADE"}
        dependents ==
            UNION {{<<fk.table, r.id>> :
                        r \in {x \in rows[fk.table] : <<fk.to, x[fk.field]>> \in S}} :
                   fk \in cascading}
    IN  IF dependents \subseteq S THEN S ELSE Collect(S \cup dependents)

Delete(t, id) ==
    /\ id \in Ids(t)
    /\ LET gone == Collect({<<t, id>>})
       IN  /\ rows' = [u \in Tables |-> {r \in rows[u] : <<u, r.id>> \notin gone}]
           /\ result' = [op |-> "delete", table |-> t, status |-> "ok",
                         count |-> Cardinality(gone)]
    /\ UNCHANGED <<nextId, now, quota>>

\* An edit of an existing row: the editable columns take the values of v.
Update(t, id, v) ==
    /\ id \in Ids(t)
    /\ LET old == Row(t, id)
           new == [f \in DOMAIN old |-> IF Editable(t, f) THEN v[f] ELSE old[f]]
       IN  /\ new # old
           /\ IF UniqueViolated(t, new, id) \/ FkViolated(t, new)
              THEN /\ result' = [op |-> "update", table |-> t,
                                 status |-> "IntegrityError", count |-> 0]
                   /\ UNCHANGED rows
              ELSE /\ rows' = [rows EXCEPT ![t] = (@ \ {old}) \cup {new}]
                   /\ result' = [op |-> "update", table |-> t, status |-> "ok",
                                 count |-> 1]
    /\ UNCHANGED <<nextId, now, quota>>

InsertUser == \E v \in Candidates("User") : Insert("User", v)
InsertArch == \E v \in Candidates("Arch") : Insert("Arch", v)
InsertHost == \E v \in Candidates("Host") : Insert("Host", v)
InsertBatch == \E v \in Candidates("Batch") : Insert("Batch", v)
InsertOpcode == \E v \in Candidates("Opcode") : Insert("Opcode", v)
InsertTestSuccess == \E v \in Candidates("TestSuccess") : Insert("TestSuccess", v)
InsertTestFailure == \E v \in Candidates("TestFailure") : Insert("TestFailure", v)
InsertTestFailureState ==
    \E v \in Candidates("TestFailureState") : Insert("TestFailureState", v)

DeleteUser == \E id \in Ids("User") : Delete("User", id)
DeleteArch == \E id \in Ids("Arch") : Delete("Arch", id)
DeleteHost == \E id \in Ids("Host") : Delete("Host", id)
DeleteBatch == \E id \in Ids("Batch") : Delete("Batch", id)
DeleteOpcode == \E id \in Ids("Opcode") : Delete("Opcode", id)
DeleteTestSuccess == \E id \in Ids("TestSuccess") : Delete("TestSuccess", id)
DeleteTestFailure == \E id \in Ids("TestFailure") : Delete("TestFailure", id)
DeleteTestFailureState ==
    \E id \in Ids("TestFailureState") : Delete("TestFailureState", id)

UpdateBatch ==
    \E id \in Ids("Batch") : \E v \in Candidates("Batch") : Update("Batch", id, v)

Tick ==
    /\ now + 1 \in Times
    /\ now' = now + 1
    /\ UNCHANGED <<rows, nextId, result, quota>>

Next ==
    \/ InsertUser
    \/ InsertArch
    \/ InsertHost
    \/ InsertBatch
    \/ InsertOpcode
    \/ InsertTestSuccess
    \/ InsertTestFailure
    \/ InsertTestFailureState
    \/ DeleteUser
    \/ DeleteArch
    \/ DeleteHost
    \/ DeleteBatch
    \/ DeleteOpcode
    \/ DeleteTestSuccess
    \/ DeleteTestFailure
    \/ DeleteTestFailureState
    \/ UpdateBatch
    \/ Tick

Spec == Init /\ [][Next]_vars

\* ------------------------------------------------------------- properties

\* The step is the insert of v into table t (stored or refused).
Inserting(t, v) == result'.op = "insert" /\ result'.table = t /\ Insert(t, v)

\* The step is the deletion of row id of table t.
Deleting(t, id) == result'.op = "delete" /\ result'.table = t /\ Delete(t, id)


\* The ids of the rows of table t after the step.
IdsAfter(t) == {r.id : r \in rows'[t]}

\* The ids of a set of rows.
IdsOf(R) == {r.id : r \in R}

\* C1: in every reachable state each of the nine foreign-key fields names a row
\* that exists in the table it refers to.
C1_ReferentialIntegrity ==
    /\ \A h \in rows["Host"] : h.arch \in Ids("Arch")
    /\ \A b \in rows["Batch"] : b.testing_host \in Ids("Host") /\ b.user \in Ids("User")
    /\ \A o \in rows["Opcode"] : o.arch \in Ids("Arch")
    /\ \A s \in rows["TestSuccess"] : s.batch \in Ids("Batch") /\ s.opcode \in Ids("Opcode")
    /\ \A f \in rows["TestFailure"] : f.batch \in Ids("Batch") /\ f.opcode \in Ids("Opcode")
    /\ \A x \in rows["TestFailureState"] : x.test_failure \in Ids("TestFailure")

\* A deletion has just run and every table that holds foreign keys has rows.
C1_Witness ==
    /\ result.op = "delete"
    /\ \A t \in {"Host", "Batch", "Opcode", "TestSuccess", "TestFailure",
                 "TestFailureState"} : rows[t] # {}

\* No two rows of User, Arch, Host share a username, name, hostname.
UniqueNames ==
    /\ \A a, b \in rows["User"] : a.username = b.username => a = b
    /\ \A a, b \in rows["Arch"] : a.name = b.name => a = b
    /\ \A a, b \in rows["Host"] : a.hostname = b.hostname => a = b

\* An insert whose username, name or hostname a row of the table already holds
\* raises IntegrityError and stores nothing.
DuplicateInsertFails ==
    /\ \A v \in Candidates("User") :
          Inserting("User", v) /\ (\E r \in rows["User"] : r.username = v.username)
              => rows' = rows /\ result'.status = "IntegrityError"
    /\ \A v \in Candidates("Arch") :
          Inserting("Arch", v) /\ (\E r \in rows["Arch"] : r.name = v.name)
              => rows' = rows /\ result'.status = "IntegrityError"
    /\ \A v \in Candidates("Host") :
          Inserting("Host", v) /\ (\E r \in rows["Host"] : r.hostname = v.hostname)
              => rows' = rows /\ result'.status = "IntegrityError"

\* C2: usernames, arch names and hostnames are unique in every reachable state,
\* and an insert of a User, Arch or Host that repeats one fails.
C2_UniqueNames == []UniqueNames /\ [][DuplicateInsertFails]_vars

\* An insert of an Arch has just failed (an Arch has no foreign key, so its name
\* was taken) while another unique name was stored beside the first.
C2_Witness ==
    /\ result = [op |-> "insert", table |-> "Arch", status |-> "IntegrityError",
                 count |-> 0]
    /\ Cardinality(rows["Arch"]) = 2

\* The rows a deletion of Arch a must take with it, table by table.
HostsOfArch(a) == {h \in rows["Host"] : h.arch = a}
OpcodesOfArch(a) == {o \in rows["Opcode"] : o.arch = a}
BatchesOfHosts(H) == {b \in rows["Batch"] : b.testing_host \in IdsOf(H)}
BatchesOfUser(u) == {b \in rows["Batch"] : b.user = u}
SuccessesOf(B, O) ==
    {s \in rows["TestSuccess"] : s.batch \in IdsOf(B) \/ s.opcode \in IdsOf(O)}
FailuresOf(B, O) ==
    {f \in rows["TestFailure"] : f.batch \in IdsOf(B) \/ f.opcode \in IdsOf(O)}
StatesOf(F) == {x \in rows["TestFailureState"] : x.test_failure \in IdsOf(F)}

\* None of the rows R of table t exists after the step.
Removed(t, R) == IdsOf(R) \cap IdsAfter(t) = {}

ArchDeleteCascades(a) ==
    LET H == HostsOfArch(a)
        O == OpcodesOfArch(a)
        B == BatchesOfHosts(H)
        F == FailuresOf(B, O)
    IN  /\ a \notin IdsAfter("Arch")
        /\ Removed("Host", H)
        /\ Removed("Opcode", O)
        /\ Removed("Batch", B)
        /\ Removed("TestSuccess", SuccessesOf(B, O))
        /\ Removed("TestFailure", F)
        /\ Removed("TestFailureState", StatesOf(F))

\* C3: the step that deletes Arch a removes a, its Hosts and Opcodes, the
\* Batches of those Hosts, the TestSuccess and TestFailure rows of those Batches
\* and Opcodes, and the TestFailureState rows of those TestFailures.
C3_ArchCascade ==
    [][\A a \in Ids("Arch") : Deleting("Arch", a) => ArchDeleteCascades(a)]_vars

\* A deletion of an Arch has just removed a row from each of the seven tables
\* that hang from Arch (the Arch, a Host, an Opcode, a Batch, a TestSuccess, a
\* TestFailure and a TestFailureState).
C3_Witness ==
    /\ result.op = "delete" /\ result.table = "Arch" /\ result.count >= 7
    /\ nextId["TestFailureState"] > 1
    /\ nextId["TestSuccess"] > 1

DanglingKey(t, v) ==
    CASE t = "Host" -> v.arch \notin Ids("Arch")
      [] t = "Opcode" -> v.arch \notin Ids("Arch")
      [] t = "Batch" -> v.testing_host \notin Ids("Host") \/ v.user \notin Ids("User")
      [] t = "TestSuccess" -> v.batch \notin Ids("Batch") \/ v.opcode \notin Ids("Opcode")
      [] t = "TestFailure" -> v.batch \notin Ids("Batch") \/ v.opcode \notin Ids("Opcode")
      [] t = "TestFailureState" -> v.test_failure \notin Ids("TestFailure")

\* C5: an insert of a Host, Batch, Opcode, TestSuccess, TestFailure or
\* TestFailureState with a foreign key that names no existing row raises
\* IntegrityError and leaves all eight tables as they were.
C5_DanglingInsertFails ==
    [][\A t \in {"Host", "Batch", "Opcode", "TestSuccess", "TestFailure",
                 "TestFailureState"} :
          \A v \in Candidates(t) :
              Inserting(t, v) /\ DanglingKey(t, v)
                  => rows' = rows /\ result'.status = "IntegrityError"]_vars

\* An insert of a TestFailureState (whose only constraint is its foreign key)
\* has just failed although a TestFailure was created once: the key named a
\* deleted row or one never created.
C5_Witness ==
    /\ result = [op |-> "insert", table |-> "TestFailureState",
                 status |-> "IntegrityError", count |-> 0]
    /\ nextId["TestFailure"] > 1
    /\ rows["TestFailure"] = {}

HostDeleteCascades(h) ==
    LET B == BatchesOfHosts({Row("Host", h)})
        F == FailuresOf(B, {})
    IN  /\ Removed("Batch", B)
        /\ Removed("TestSuccess", SuccessesOf(B, {}))
        /\ Removed("TestFailure", F)
        /\ Removed("TestFailureState", StatesOf(F))

BatchDeleteCascades(b) ==
    LET F == FailuresOf({Row("Batch", b)}, {})
    IN  /\ Removed("TestSuccess", SuccessesOf({Row("Batch", b)}, {}))
        /\ Removed("TestFailure", F)
        /\ Removed("TestFailureState", StatesOf(F))

FailureDeleteCascades(f) ==
    Removed("TestFailureState", StatesOf({Row("TestFailure", f)}))

\* C6: deleting a Host removes its Batches, deleting a Batch removes its
\* TestSuccess and TestFailure rows, deleting a TestFailure removes its
\* TestFailureState rows, each transitively.
C6_Cascades ==
    [][/\ \A h \in Ids("Host") : Deleting("Host", h) => HostDeleteCascades(h)
       /\ \A b \in Ids("Batch") : Deleting("Batch", b) => BatchDeleteCascades(b)
       /\ \A f \in Ids("TestFailure") :
             Deleting("TestFailure", f) => FailureDeleteCascades(f)]_vars

\* A deletion of a Host has just removed the Host, a Batch, a TestSuccess, a
\* TestFailure and a TestFailureState.
C6_Witness ==
    /\ result.op = "delete" /\ result.table = "Host" /\ result.count >= 5
    /\ nextId["TestFailureState"] > 1
    /\ rows["Arch"] # {}

\* C7: an insert of a TestFailureState for an existing TestFailure succeeds and
\* stores the row, however many TestFailureState rows refer to that TestFailure.
C7_ManyStates ==
    [][\A v \in Candidates("TestFailureState") :
          Inserting("TestFailureState", v) /\ v.test_failure \in Ids("TestFailure")
              => /\ result'.status = "ok"
                 /\ Cardinality(rows'["TestFailureState"])
                        = Cardinality(rows["TestFailureState"]) + 1]_vars

\* A TestFailure has more than one TestFailureState.
C7_Witness ==
    \E f \in rows["TestFailure"] :
        Cardinality(StatesOf({f})) > 1

UserDeleteCascades(u) ==
    LET B == BatchesOfUser(u)
        F == FailuresOf(B, {})
    IN  /\ u \notin IdsAfter("User")
        /\ Removed("Batch", B)
        /\ Removed("TestSuccess", SuccessesOf(B, {}))
        /\ Removed("TestFailure", F)
        /\ Removed("TestFailureState", StatesOf(F))
        /\ rows'["Host"] = rows["Host"]

\* C8: deleting a User removes the user's Batches and their TestSuccess,
\* TestFailure and TestFailureState rows, and no Host.
C8_UserCascade ==
    [][\A u \in Ids("User") : Deleting("User", u) => UserDeleteCascades(u)]_vars

\* A deletion of a User has just removed the User, a Batch, a TestSuccess, a
\* TestFailure and a TestFailureState, and the Host is still there.
C8_Witness ==
    /\ result.op = "delete" /\ result.table = "User" /\ result.count >= 5
    /\ nextId["TestFailureState"] > 1
    /\ rows["Host"] # {}

OpcodeDeleteCascades(o) ==
    LET S == {s \in rows["TestSuccess"] : s.opcode = o}
        F == {f \in rows["TestFailure"] : f.opcode = o}
    IN  /\ rows'["TestSuccess"] = rows["TestSuccess"] \ S
        /\ rows'["TestFailure"] = rows["TestFailure"] \ F
        /\ Removed("TestFailureState", StatesOf(F))
        /\ rows'["Batch"] = rows["Batch"]

\* C9: deleting an Opcode removes exactly the TestSuccess and TestFailure rows
\* of that Opcode, and the TestFailureState rows of those TestFailures, and no
\* Batch; deleting a Batch removes the TestSuccess and TestFailure rows of that
\* Batch.
C9_OpcodeCascade ==
    [][/\ \A o \in Ids("Opcode") : Deleting("Opcode", o) => OpcodeDeleteCascades(o)
       /\ \A b \in Ids("Batch") :
             Deleting("Batch", b) =>
                 /\ Removed("TestSuccess", {s \in rows["TestSuccess"] : s.batch = b})
                 /\ Removed("TestFailure", {f \in rows["TestFailure"] : f.batch = b})]_vars

\* A deletion of an Opcode has just removed results, and a TestFailure of the
\* same Batch for another Opcode is still there.
C9_Witness ==
    /\ result.op = "delete" /\ result.table = "Opcode" /\ result.count >= 3
    /\ \E f \in rows["TestFailure"] : f.batch \in Ids("Batch")

\* The rows of table u that are gone after the step.
Gone(u) == rows[u] \ rows'[u]

\* Row r of table u is the row <<t, id>>.
IsTarget(u, r, t, id) == u = t /\ r.id = id

\* A deletion of row <<t, id>> removes a row exactly when it is that row or a
\* row it refers to is removed; it adds and changes none.
DeletesExactly(t, id) ==
    /\ \A u \in Tables : rows'[u] \subseteq rows[u]
    /\ nextId' = nextId
    /\ \A r \in rows["User"] : r \in Gone("User") <=> IsTarget("User", r, t, id)
    /\ \A r \in rows["Arch"] : r \in Gone("Arch") <=> IsTarget("Arch", r, t, id)
    /\ \A r \in rows["Host"] :
          r \in Gone("Host") <=>
              \/ IsTarget("Host", r, t, id)
              \/ r.arch \in IdsOf(Gone("Arch"))
    /\ \A r \in rows["Opcode"] :
          r \in Gone("Opcode") <=>
              \/ IsTarget("Opcode", r, t, id)
              \/ r.arch \in IdsOf(Gone("Arch"))
    /\ \A r \in rows["Batch"] :
          r \in Gone("Batch") <=>
              \/ IsTarget("Batch", r, t, id)
              \/ r.testing_host \in IdsOf(Gone("Host"))
              \/ r.user \in IdsOf(Gone("User"))
    /\ \A r \in rows["TestSuccess"] :
          r \in Gone("TestSuccess") <=>
              \/ IsTarget("TestSuccess", r, t, id)
              \/ r.batch \in IdsOf(Gone("Batch"))
              \/ r.opcode \in IdsOf(Gone("Opcode"))
    /\ \A r \in rows["TestFailure"] :
          r \in Gone("TestFailure") <=>
              \/ IsTarget("TestFailure", r, t, id)
              \/ r.batch \in IdsOf(Gone("Batch"))
              \/ r.opcode \in IdsOf(Gone("Opcode"))
    /\ \A r \in rows["TestFailureState"] :
          r \in Gone("TestFailureState") <=>
              \/ IsTarget("TestFailureState", r, t, id)
              \/ r.test_failure \in IdsOf(Gone("TestFailure"))

\* C10: a deletion removes the deleted row and the rows that refer to it
\* through foreign keys, directly or through other removed rows, and leaves
\* every other row in place with its fields as they were; no parent is removed
\* with its child.
C10_DeleteFrame ==
    [][\A t \in Tables : \A id \in Ids(t) :
          Deleting(t, id) => DeletesExactly(t, id)]_vars

\* A deletion of a TestFailure has just removed it and a TestFailureState, and
\* its Batch, Opcode, Host, User and Arch are all still there, as is the
\* TestSuccess beside it.
C10_Witness ==
    /\ result.op = "delete" /\ result.table = "TestFailure" /\ result.count = 2
    /\ \A t \in {"Batch", "Opcode", "Host", "User", "Arch", "TestSuccess"} :
          rows[t] # {}

====
